---- MODULE Spec2Model ----
(***************************************************************************)
(* super-regex: deadline-guarded regular-expression matching.              *)
(*                                                                         *)
(*   src/functionTimeout.ts  functionTimeout (the Deadline Executor) and   *)
(*                           isTimeoutError                                *)
(*   src/index.ts            isMatch, firstMatch, matches, resultToMatch   *)
(*                                                                         *)
(* JavaScript values are tagged records, so that `undefined`, booleans,    *)
(* numbers, strings and objects can be compared with one another.  A       *)
(* string is a sequence of one-letter strings; JavaScript's 0-based index  *)
(* i is position i+1 of the sequence.  Time is counted in ticks,           *)
(* TicksPerMs ticks to the millisecond, so that Math.ceil has something    *)
(* to round.                                                               *)
(***************************************************************************)
EXTENDS Integers, Sequences, FiniteSets, TLC

(***************************************************************************)
(* Bounds of the model.                                                    *)
(***************************************************************************)
MaxLen == 2
MaxTimeout == 2
MaxMatchTimeout == 1
MaxCost == 3
MaxOverhead == 1
TicksPerMs == 2

(***************************************************************************)
(* Program constants.                                                      *)
(***************************************************************************)
\* Number.POSITIVE_INFINITY: larger than every finite number of the model,
\* absorbing under subtraction (see Minus).
Infinity == 1000000
\* The option `timeout: undefined` (no deadline), written as a number so that
\* it can stand where a deadline stands; never used in arithmetic.
NoTimeout == -1000000

(***************************************************************************)
(* JavaScript values.                                                      *)
(***************************************************************************)
Undefined == [tag |-> "undefined"]
Null == [tag |-> "null"]
Bool(b) == [tag |-> "boolean", val |-> b]
Num(n) == [tag |-> "number", val |-> n]
Str(s) == [tag |-> "string", val |-> s]
Obj(props) == [tag |-> "object", props |-> props]

Chars == {"a", "d"}
RECURSIVE StringsOfLen(_)
StringsOfLen(n) ==
  IF n = 0 THEN {<<>>}
  ELSE {Append(s, c) : s \in StringsOfLen(n - 1), c \in Chars}
Strings == UNION {StringsOfLen(n) : n \in 0..MaxLen}

\* s.slice(from, to) on a string, 0-based, `to` exclusive.
Slice(s, from, to) == SubSeq(s, from + 1, to)

(***************************************************************************)
(* The regex engine (ECMAScript RegExp), a black box to the library: the   *)
(* two patterns below stand for the caller's patterns.                     *)
(*   "(?<n>d)(a)?"  a d, then optionally an a: one named group, one        *)
(*                  unnamed group that may not take part                   *)
(*   "a*"           a maximal, possibly empty, run of a, no capture group  *)
(***************************************************************************)
Patterns == {"(?<n>d)(a)?", "a*"}

\* The end (exclusive, 0-based) of the maximal run of character c starting at i.
RECURSIVE RunEnd(_, _, _)
RunEnd(s, c, i) ==
  IF i < Len(s) /\ s[i + 1] = c THEN RunEnd(s, c, i + 1) ELSE i

\* The pattern matched at exactly index i of s: Null, or the exec result array
\* (element 0 the matched text, then the capture groups; index; groups; input).
MatchAt(p, s, i) ==
  CASE p = "(?<n>d)(a)?" ->
         IF i < Len(s) /\ s[i + 1] = "d"
         THEN IF i + 1 < Len(s) /\ s[i + 2] = "a"
              THEN [arr |-> <<Str(Slice(s, i, i + 2)), Str(<<"d">>), Str(<<"a">>)>>,
                    index |-> i, groups |-> Obj({<<"n", Str(<<"d">>)>>}),
                    input |-> Str(s)]
              ELSE [arr |-> <<Str(Slice(s, i, i + 1)), Str(<<"d">>), Undefined>>,
                    index |-> i, groups |-> Obj({<<"n", Str(<<"d">>)>>}),
                    input |-> Str(s)]
         ELSE Null
    [] OTHER ->
         [arr |-> <<Str(Slice(s, i, RunEnd(s, "a", i)))>>, index |-> i,
          groups |-> Undefined, input |-> Str(s)]

\* The first index >= i at which the pattern matches, or Len(s)+1 if none.
RECURSIVE FindFrom(_, _, _)
FindFrom(p, s, i) ==
  IF i > Len(s) THEN Len(s) + 1
  ELSE IF MatchAt(p, s, i) # Null THEN i
  ELSE FindFrom(p, s, i + 1)

\* The end index of an exec result.
EndOf(result) == result.index + Len(result.arr[1].val)

(***************************************************************************)
(* Regex objects live on a heap, so that "the caller's regex object" and   *)
(* "a clone of it" are different things.  A regex object carries its       *)
(* pattern, its flags and its mutable scan position lastIndex.             *)
(***************************************************************************)
CallerRef == <<"caller", 0>>
CloneRef == <<"clone", 0>>
MatcherRef(i) == <<"matcher", i>>
\* The generators obtained from the value one matches call returned: the first
\* iteration of it and a second one.
Iters == {1, 2}
Refs == {CallerRef, CloneRef} \cup {MatcherRef(i) : i \in Iters}

NoRegex == [pattern |-> "none", global |-> FALSE, sticky |-> FALSE, lastIndex |-> 0]

\* RegExpBuiltinExec(R, S) on the regex object at ref r: the result (Null or
\* the result array) and the heap after it, with R.lastIndex written back the
\* way the engine does for global and sticky regexes.
RegExpExec(h, r, s) ==
  LET R == h[r]
      tracked == R.global \/ R.sticky
      start == IF tracked THEN R.lastIndex ELSE 0
      at == IF start > Len(s) THEN Len(s) + 1
            ELSE IF R.sticky
                 THEN (IF MatchAt(R.pattern, s, start) # Null THEN start ELSE Len(s) + 1)
                 ELSE FindFrom(R.pattern, s, start)
  IN IF at > Len(s)
     THEN [result |-> Null,
           heap |-> IF tracked THEN [h EXCEPT ![r].lastIndex = 0] ELSE h]
     ELSE [result |-> MatchAt(R.pattern, s, at),
           heap |-> IF tracked
                    THEN [h EXCEPT ![r].lastIndex = EndOf(MatchAt(R.pattern, s, at))]
                    ELSE h]

\* A variant of structuredClone whose clone carries the original's lastIndex.
structuredCloneKeepsPosition(h, r) ==
  [heap |-> [h EXCEPT ![CloneRef] = h[r]], ref |-> CloneRef]

\* A variant of structuredClone that hands back the very object it was given.
structuredCloneAlias(h, r) == [heap |-> h, ref |-> r]

\* structuredClone(regex): a new regex object with the same pattern and flags;
\* lastIndex is not part of what is cloned, the clone starts at 0.
structuredClone(h, r) ==
  [heap |-> [h EXCEPT ![CloneRef] = [h[r] EXCEPT !.lastIndex = 0]], ref |-> CloneRef]

\* The clone of a finished call is garbage.
Collect(h) == [h EXCEPT ![CloneRef] = NoRegex]

(***************************************************************************)
(* Errors.  `origin` tells the objects apart (it is not a JavaScript       *)
(* property); `code` is the property isTimeoutError reads.                 *)
(***************************************************************************)
ErrorObj(name, code, origin) ==
  [tag |-> "object", name |-> name, code |-> code, origin |-> origin]
\* node:vm, on a script that runs past options.timeout.
VmTimeoutError == ErrorObj("Error", Str("ERR_SCRIPT_EXECUTION_TIMEOUT"), "vm")
\* node:vm, on an options.timeout that is not a strictly positive integer.
VmRangeError == ErrorObj("RangeError", Str("ERR_OUT_OF_RANGE"), "vm")
\* matches, on a regex without the global flag.
UsageError == ErrorObj("Error", Undefined, "matches")
\* The regex engine failing for a reason that has nothing to do with time.
EngineError == ErrorObj("InternalError", Undefined, "engine")
\* What a caller's own function may throw: any value at all.
FnErrors == {ErrorObj("Error", Undefined, "fn"),
             ErrorObj("TypeError", Str("ERR_INVALID_ARG_TYPE"), "fn"),
             ErrorObj("Error", Str("ERR_SCRIPT_EXECUTION_TIMEOUT"), "fn"),
             Undefined}

\* isTimeoutError(error): error?.code === "ERR_SCRIPT_EXECUTION_TIMEOUT".
isTimeoutError(error) ==
  IF error.tag \in {"undefined", "null"} THEN FALSE
  ELSE error.code = Str("ERR_SCRIPT_EXECUTION_TIMEOUT")

(***************************************************************************)
(* The Deadline Executor.  A function to run is described by what it does  *)
(* when left alone: the ticks it takes and how it ends.                    *)
(***************************************************************************)
Returning(cost, value) == [cost |-> cost, kind |-> "return", value |-> value, error |-> Undefined]
Throwing(cost, error) == [cost |-> cost, kind |-> "throw", value |-> Undefined, error |-> error]

\* vm.createContext(): a fresh sandbox object.
createContext == [functionToRun |-> Undefined, returnValue |-> Undefined]

\* A variant of the script run that assigns returnValue only while the context
\* holds none ("returnValue ??= functionToRun()").
runInNewContextKeepFirst(context, timeout) ==
  LET fn == context.functionToRun
  IN IF timeout # NoTimeout /\ timeout < 1
     THEN [kind |-> "throw", error |-> VmRangeError, context |-> context,
           ran |-> 0, outcome |-> "rejected"]
     ELSE IF timeout = NoTimeout /\ fn.cost = Infinity
     THEN [kind |-> "hang", error |-> Undefined, context |-> context,
           ran |-> fn.cost, outcome |-> "hung"]
     ELSE IF timeout # NoTimeout /\ fn.cost > timeout * TicksPerMs
     THEN [kind |-> "throw", error |-> VmTimeoutError, context |-> context,
           ran |-> timeout * TicksPerMs, outcome |-> "timeout"]
     ELSE IF fn.kind = "throw"
     THEN [kind |-> "throw", error |-> fn.error, context |-> context,
           ran |-> fn.cost, outcome |-> "threw"]
     ELSE [kind |-> "return", error |-> Undefined,
           context |-> [context EXCEPT !.returnValue =
                          IF @ = Undefined THEN fn.value ELSE @],
           ran |-> fn.cost, outcome |-> "completed"]

\* script.runInNewContext(context, {timeout}) for the script
\* "returnValue = functionToRun()": node:vm rejects a timeout that is not a
\* strictly positive integer before running anything, ends a run that takes
\* longer than the timeout with ERR_SCRIPT_EXECUTION_TIMEOUT, and otherwise
\* lets the function's outcome through; only a completed call assigns
\* returnValue.  `ran` is the time spent inside the script, `outcome` says how
\* the run ended.  Without a timeout nothing interrupts the script: a function
\* that never returns (cost Infinity) keeps the caller waiting for ever.
runInNewContext(context, timeout) ==
  LET fn == context.functionToRun
  IN IF timeout # NoTimeout /\ timeout < 1
     THEN [kind |-> "throw", error |-> VmRangeError, context |-> context,
           ran |-> 0, outcome |-> "rejected"]
     ELSE IF timeout = NoTimeout /\ fn.cost = Infinity
     THEN [kind |-> "hang", error |-> Undefined, context |-> context,
           ran |-> fn.cost, outcome |-> "hung"]
     ELSE IF timeout # NoTimeout /\ fn.cost > timeout * TicksPerMs
     THEN [kind |-> "throw", error |-> VmTimeoutError, context |-> context,
           ran |-> timeout * TicksPerMs, outcome |-> "timeout"]
     ELSE IF fn.kind = "throw"
     THEN [kind |-> "throw", error |-> fn.error, context |-> context,
           ran |-> fn.cost, outcome |-> "threw"]
     ELSE [kind |-> "return", error |-> Undefined,
           context |-> [context EXCEPT !.returnValue = fn.value],
           ran |-> fn.cost, outcome |-> "completed"]

\* A variant of the wrapper that swallows whatever the script throws and
\* returns what the context holds.
wrappedFunctionSwallow(context, timeout, fn) ==
  LET run == runInNewContext([context EXCEPT !.functionToRun = fn], timeout)
  IN [kind |-> "return", value |-> run.context.returnValue, error |-> Undefined,
      context |-> run.context, ran |-> run.ran, outcome |-> run.outcome,
      timeout |-> timeout]

\* A variant of the wrapper that returns what the context held before the call.
wrappedFunctionStale(context, timeout, fn) ==
  LET run == runInNewContext([context EXCEPT !.functionToRun = fn], timeout)
  IN [kind |-> run.kind,
      value |-> IF run.kind = "return" THEN context.returnValue ELSE Undefined,
      error |-> run.error, context |-> run.context, ran |-> run.ran,
      outcome |-> run.outcome, timeout |-> timeout]

\* functionTimeout(function_, {timeout, context})(...arguments_): store the
\* call on the context, run the script under the timeout, return the context's
\* returnValue; whatever the script throws goes to the caller.
wrappedFunction(context, timeout, fn) ==
  LET run == runInNewContext([context EXCEPT !.functionToRun = fn], timeout)
  IN [kind |-> run.kind,
      value |-> IF run.kind = "return" THEN run.context.returnValue ELSE Undefined,
      error |-> run.error, context |-> run.context, ran |-> run.ran,
      outcome |-> run.outcome, timeout |-> timeout]

(***************************************************************************)
(* Numbers: Number.POSITIVE_INFINITY, Math.min, Math.ceil, subtraction.    *)
(***************************************************************************)
\* Math.min(a, b); Infinity is above every finite number.
MathMin(a, b) == IF a <= b THEN a ELSE b
\* Math.ceil(end()): a span of `ticks` ticks, in whole milliseconds, rounded up.
MathCeilMs(ticks) == (ticks + TicksPerMs - 1) \div TicksPerMs
\* a - b in IEEE arithmetic, b finite: Infinity - b is Infinity.
Minus(a, b) == IF a = Infinity THEN Infinity ELSE a - b

\* resultToMatch(result).
resultToMatch(result) ==
  [match |-> result.arr[1],
   index |-> result.index,
   groups |-> Tail(result.arr),
   namedGroups |-> IF result.groups \in {Undefined, Null} THEN Obj({}) ELSE result.groups,
   input |-> result.input]

(***************************************************************************)
(* State.                                                                  *)
(*   heap     the regex objects: the caller's, the clone of the call in    *)
(*            progress, each iterator's matcher                            *)
(*   context  a caller-supplied EvaluationContext, reused across guarded   *)
(*            calls                                                        *)
(*   call     the closure of one matches(...) call: its subject string,    *)
(*            its `timeout` variable (the remaining budget), matchTimeout  *)
(*   iters    the generators obtained from the value that call returned    *)
(*   last     what the last operation did and gave back to its caller      *)
(***************************************************************************)
VARIABLES heap, context, call, iters, last
vars == <<heap, context, call, iters, last>>

\* The timeouts a caller passes: whole milliseconds, at least 1.
UserTimeouts == 1..MaxTimeout

NoCall == [active |-> FALSE, string |-> <<>>, timeout |-> Infinity,
           matchTimeout |-> Infinity, budget |-> Infinity]
\* A generator not yet started.  `yielded`, `spent` (the time spent inside
\* guarded steps, each step's time rounded up to whole milliseconds, counted
\* when the budget is finite), `start` (the matcher's lastIndex
\* when it was made) and `ended` (how its last step went, once it has ended:
\* "exhausted", or the executor's "timeout", "threw", "rejected", or "usage"
\* for matchAll's TypeError) record its history.
FreshIter == [state |-> "fresh", yielded |-> <<>>, spent |-> 0, start |-> 0,
              ended |-> "no"]
NoAttempt == [outcome |-> "none", value |-> Undefined, error |-> Undefined]
Attempt(att) == [outcome |-> att.outcome,
                 value |-> IF att.outcome = "completed" THEN att.value ELSE Undefined,
                 error |-> att.error]
Last(op, kind, value, error, attempt) ==
  [op |-> op, kind |-> kind, value |-> value, error |-> error, attempt |-> attempt]

Init ==
  /\ \E p \in Patterns, g \in BOOLEAN, y \in BOOLEAN :
       heap = [r \in Refs |->
                 IF r = CallerRef
                 THEN [pattern |-> p, global |-> g, sticky |-> y, lastIndex |-> 0]
                 ELSE NoRegex]
  /\ context = createContext
  /\ call = NoCall
  /\ iters = [i \in Iters |-> FreshIter]
  /\ last = Last("none", "none", Undefined, Undefined, NoAttempt)

\* The caller uses its own regex object between calls, which leaves some scan
\* position on it (regex.lastIndex = n, or an exec/test of its own).  Only a
\* global or sticky regex heeds its position, and the library reads the
\* caller's regex for the last time when a generator is first pulled.
CallerSetsLastIndex(n) ==
  /\ heap[CallerRef].global \/ heap[CallerRef].sticky
  /\ \A i \in Iters : iters[i].state = "fresh"
  /\ heap[CallerRef].lastIndex # n
  /\ heap' = [heap EXCEPT ![CallerRef].lastIndex = n]
  /\ last' = Last("caller", "none", Undefined, Undefined, NoAttempt)
  /\ UNCHANGED <<context, call, iters>>

(***************************************************************************)
(* isMatch and firstMatch.                                                 *)
(***************************************************************************)
\* The function isMatch guards, () => structuredClone(regex).test(string): the
\* ticks it takes are the engine's business, and the engine may fail.
TestFn(h, s, cost, fault) ==
  LET c == structuredClone(h, CallerRef)
      e == RegExpExec(c.heap, c.ref, s)
  IN [fn |-> IF fault THEN Throwing(cost, EngineError)
             ELSE Returning(cost, Bool(e.result # Null)),
      heap |-> e.heap]

\* The function firstMatch guards, () => structuredClone(regex).exec(string).
ExecFn(h, s, cost, fault) ==
  LET c == structuredClone(h, CallerRef)
      e == RegExpExec(c.heap, c.ref, s)
  IN [fn |-> IF fault THEN Throwing(cost, EngineError)
             ELSE Returning(cost, e.result),
      heap |-> e.heap]

\* A variant of isMatch's result that maps every error to false.
isMatchResultCatchAll(att) ==
  IF att.kind = "return" THEN [kind |-> "return", value |-> att.value, error |-> Undefined]
  ELSE [kind |-> "return", value |-> Bool(FALSE), error |-> Undefined]

\* isMatch's try/catch around the guarded call.
isMatchResult(att) ==
  IF att.kind = "return" THEN [kind |-> "return", value |-> att.value, error |-> Undefined]
  ELSE IF isTimeoutError(att.error)
  THEN [kind |-> "return", value |-> Bool(FALSE), error |-> Undefined]
  ELSE [kind |-> "throw", value |-> Undefined, error |-> att.error]

\* A variant of firstMatch's result without the null check.
firstMatchResultNoNullCheck(att) ==
  IF att.kind = "return"
  THEN [kind |-> "return",
        value |-> IF att.value = Null THEN Obj({}) ELSE resultToMatch(att.value),
        error |-> Undefined]
  ELSE IF isTimeoutError(att.error)
  THEN [kind |-> "return", value |-> Undefined, error |-> Undefined]
  ELSE [kind |-> "throw", value |-> Undefined, error |-> att.error]

\* firstMatch's body: null -> undefined, a result -> resultToMatch, a timeout
\* -> undefined, any other error rethrown.
firstMatchResult(att) ==
  IF att.kind = "return"
  THEN [kind |-> "return",
        value |-> IF att.value = Null THEN Undefined ELSE resultToMatch(att.value),
        error |-> Undefined]
  ELSE IF isTimeoutError(att.error)
  THEN [kind |-> "return", value |-> Undefined, error |-> Undefined]
  ELSE [kind |-> "throw", value |-> Undefined, error |-> att.error]

\* isMatch(regex, string, {timeout}).
IsMatch(s, timeout, cost, fault) ==
  LET f == TestFn(heap, s, cost, fault)
      att == wrappedFunction(createContext, timeout, f.fn)
      res == isMatchResult(att)
  IN /\ heap' = IF att.outcome = "completed" THEN Collect(f.heap) ELSE heap
     /\ last' = Last("isMatch", res.kind, res.value, res.error, Attempt(att))
     /\ UNCHANGED <<context, call, iters>>

\* firstMatch(regex, string, {timeout}).
FirstMatch(s, timeout, cost, fault) ==
  LET f == ExecFn(heap, s, cost, fault)
      att == wrappedFunction(createContext, timeout, f.fn)
      res == firstMatchResult(att)
  IN /\ heap' = IF att.outcome = "completed" THEN Collect(f.heap) ELSE heap
     /\ last' = Last("firstMatch", res.kind, res.value, res.error, Attempt(att))
     /\ UNCHANGED <<context, call, iters>>

(***************************************************************************)
(* matches.                                                                *)
(***************************************************************************)
\* A variant of the usage check that lets every regex through.
MissingGlobalFlagNever(regex) == FALSE

\* matches' eager check: if (!regex.global) throw ...
MissingGlobalFlag(regex) == ~regex.global

\* matches(regex, string, {timeout, matchTimeout}): the usage error, or the
\* iterable, whose closure holds the string and the two budgets.  Nothing of
\* the generator's body runs here.
MatchesCall(s, timeout, matchTimeout) ==
  /\ ~call.active
  /\ IF MissingGlobalFlag(heap[CallerRef])
     THEN /\ last' = Last("matches", "throw", Undefined, UsageError, NoAttempt)
          /\ UNCHANGED call
     ELSE /\ last' = Last("matches", "return", Obj({}), Undefined, NoAttempt)
          /\ call' = [active |-> TRUE, string |-> s, timeout |-> timeout,
                      matchTimeout |-> matchTimeout, budget |-> timeout]
  /\ UNCHANGED <<heap, context, iters>>

\* string.matchAll(regex): RegExp.prototype[Symbol.matchAll] makes a new regex
\* object with the same pattern and flags and copies regex.lastIndex onto it.
matchAll(h, i) == [h EXCEPT ![MatcherRef(i)] = h[CallerRef]]

\* matches2.next(), one step of the engine's match iterator on a global
\* matcher: exec; no result ends it; after an empty match lastIndex moves on by
\* one.
NextFn(h, i, s, cost, fault) ==
  LET e == RegExpExec(h, MatcherRef(i), s)
      r == MatcherRef(i)
  IN IF fault THEN [fn |-> Throwing(cost, EngineError), heap |-> h]
     ELSE IF e.result = Null
     THEN [fn |-> Returning(cost, [value |-> Undefined, done |-> TRUE]),
           heap |-> e.heap]
     ELSE [fn |-> Returning(cost, [value |-> e.result, done |-> FALSE]),
           heap |-> IF EndOf(e.result) = e.result.index
                    THEN [e.heap EXCEPT ![r].lastIndex = e.heap[r].lastIndex + 1]
                    ELSE e.heap]

\* A variant of the step deadline that heeds the whole-iteration budget only.
StepTimeoutBudgetOnly(timeout, matchTimeout) ==
  IF timeout # Infinity THEN MathMin(timeout, matchTimeout) ELSE NoTimeout

\* A variant of the step deadline that takes matchTimeout alone.
StepTimeoutStepOnly(timeout, matchTimeout) ==
  IF timeout # Infinity \/ matchTimeout # Infinity THEN matchTimeout ELSE NoTimeout

\* A variant of the step deadline that takes the larger of the two budgets.
StepTimeoutMax(timeout, matchTimeout) ==
  IF timeout # Infinity \/ matchTimeout # Infinity
  THEN (IF timeout >= matchTimeout THEN timeout ELSE matchTimeout)
  ELSE NoTimeout

\* The timeout option of one step: Math.min(timeout, matchTimeout) when either
\* is finite, else undefined.
StepTimeout(timeout, matchTimeout) ==
  IF timeout # Infinity \/ matchTimeout # Infinity
  THEN MathMin(timeout, matchTimeout)
  ELSE NoTimeout

\* A variant of the decrement that charges nothing to the call's budget.
DecrementNothing(timeout, elapsedTicks) == timeout

\* A variant of the decrement that rounds the measured time down.
DecrementRoundDown(timeout, elapsedTicks) == Minus(timeout, elapsedTicks \div TicksPerMs)

\* timeout -= Math.ceil(end()).
Decrement(timeout, elapsedTicks) == Minus(timeout, MathCeilMs(elapsedTicks))

\* A variant of the generator's catch that rethrows every error.
CatchRethrowAll(error) == "throw"

\* The generator's catch: a timeout error ends the sequence, any other error
\* is rethrown.
Catch(error) == IF isTimeoutError(error) THEN "done" ELSE "throw"

LastStep(i, before, deadline, kind, value, error, attempt) ==
  [op |-> "next", kind |-> kind, value |-> value, error |-> error,
   attempt |-> attempt, it |-> i, before |-> before, deadline |-> deadline]

\* One pull on generator i, from where it is suspended to its next yield,
\* return or throw: one turn of the while loop (preceded, on the first pull, by
\* string.matchAll).  `overhead` is the time the stopwatch measures outside
\* the guarded function.
Pull(i, cost, overhead, fault) ==
  /\ call.active
  /\ iters[i].state \in {"fresh", "suspended"}
  /\ IF iters[i].state = "fresh" /\ ~heap[CallerRef].global
     THEN \* string.matchAll throws a TypeError on a regex without the g flag
          /\ iters' = [iters EXCEPT ![i].state = "failed", ![i].ended = "usage"]
          /\ last' = LastStep(i, call.timeout, NoTimeout, "throw", Undefined,
                              ErrorObj("TypeError", Undefined, "matchAll"), NoAttempt)
          /\ UNCHANGED <<heap, call>>
     ELSE LET fresh == iters[i].state = "fresh"
              h0 == IF fresh THEN matchAll(heap, i) ELSE heap
              start == IF fresh THEN h0[MatcherRef(i)].lastIndex ELSE iters[i].start
              deadline == StepTimeout(call.timeout, call.matchTimeout)
              nx == NextFn(h0, i, call.string, cost, fault)
              att == wrappedFunction(createContext, deadline, nx.fn)
              it0 == [iters[i] EXCEPT !.start = start,
                                      !.spent = IF call.budget = Infinity THEN 0
                                                ELSE @ + MathCeilMs(att.ran)]
          IN IF att.kind = "hang"
             THEN \* nextMatch() never returns: the pull blocks for ever
                  /\ heap' = h0
                  /\ UNCHANGED call
                  /\ iters' = [iters EXCEPT ![i].state = "blocked", ![i].start = start,
                                            ![i].ended = att.outcome]
                  /\ last' = LastStep(i, call.timeout, deadline, "blocked", Undefined,
                                      Undefined, Attempt(att))
             ELSE IF att.kind = "throw"
             THEN /\ heap' = h0
                  /\ UNCHANGED call
                  /\ IF Catch(att.error) = "done"
                     THEN /\ iters' = [iters EXCEPT ![i] =
                                         [it0 EXCEPT !.state = "done", !.ended = att.outcome]]
                          /\ last' = LastStep(i, call.timeout, deadline, "done", Undefined,
                                              Undefined, Attempt(att))
                     ELSE /\ iters' = [iters EXCEPT ![i] =
                                         [it0 EXCEPT !.state = "failed", !.ended = att.outcome]]
                          /\ last' = LastStep(i, call.timeout, deadline, "throw", Undefined,
                                              att.error, Attempt(att))
             ELSE /\ heap' = nx.heap
                  /\ call' = [call EXCEPT !.timeout = Decrement(@, att.ran + overhead)]
                  /\ IF att.value.done
                     THEN /\ iters' = [iters EXCEPT ![i] =
                                         [it0 EXCEPT !.state = "done", !.ended = "exhausted"]]
                          /\ last' = LastStep(i, call.timeout, deadline, "done", Undefined,
                                              Undefined, Attempt(att))
                     ELSE /\ iters' = [iters EXCEPT ![i] =
                                         [it0 EXCEPT !.state = "suspended",
                                                     !.yielded = Append(@, resultToMatch(att.value.value))]]
                          /\ last' = LastStep(i, call.timeout, deadline, "yield",
                                              resultToMatch(att.value.value), Undefined,
                                              Attempt(att))
  /\ UNCHANGED context

\* One pull on generator i after it has returned or thrown: a finished
\* generator reports done and runs none of its body.
PullFinished(i) ==
  /\ call.active
  /\ iters[i].state \in {"done", "failed"}
  /\ last' = LastStep(i, call.timeout, NoTimeout, "done", Undefined, Undefined, NoAttempt)
  /\ UNCHANGED <<heap, context, call, iters>>

(***************************************************************************)
(* The Deadline Executor on its own, with a context the caller supplies    *)
(* and reuses.                                                             *)
(***************************************************************************)
FnValues == {Undefined, Num(1), Bool(FALSE)}

\* functionTimeout(f, {timeout, context})(): f takes `cost` ticks and returns
\* `value`.
GuardReturning(timeout, cost, value) ==
  LET att == wrappedFunction(context, timeout, Returning(cost, value))
  IN /\ context' = att.context
     /\ last' = [Last("guard", att.kind, att.value, att.error, Attempt(att))
                   EXCEPT !.attempt.value = value]
     /\ UNCHANGED <<heap, call, iters>>

\* functionTimeout(f, {timeout, context})(): f takes `cost` ticks and throws
\* `error`.
GuardThrowing(timeout, cost, error) ==
  LET att == wrappedFunction(context, timeout, Throwing(cost, error))
  IN /\ context' = att.context
     /\ last' = Last("guard", att.kind, att.value, att.error,
                     [Attempt(att) EXCEPT !.error = error])
     /\ UNCHANGED <<heap, call, iters>>

\* functionTimeout(f, {timeout, context})() where f itself calls
\* functionTimeout(g, {timeout: innerTimeout, context: ...})(), on the same
\* context (`shared`) or on a new one, lets whatever g's call throws
\* propagate, and then returns `value`.  The inner call stores g on its context
\* and runs the script there while the outer script is still running; the
\* outer script assigns returnValue when f has returned.  An outer deadline
\* that passes while g runs cuts both short.
GuardNested(timeout, value, innerTimeout, inner, shared) ==
  LET outer == Returning(0, value)
      c1 == [context EXCEPT !.functionToRun = outer]
      inn == wrappedFunction(IF shared THEN c1 ELSE createContext, innerTimeout, inner)
      rejected == timeout # NoTimeout /\ timeout < 1
      cut == timeout # NoTimeout /\ inn.ran > timeout * TicksPerMs
      body == IF inn.kind = "throw" THEN Throwing(inn.ran, inn.error)
              ELSE [outer EXCEPT !.cost = @ + inn.ran]
      c2 == IF rejected \/ ~shared THEN c1
            ELSE IF cut THEN [c1 EXCEPT !.functionToRun = inner]
            ELSE inn.context
      att == wrappedFunction(c2, timeout, body)
  IN /\ context' = [att.context EXCEPT !.functionToRun = c2.functionToRun]
     /\ last' = [op |-> "nested", kind |-> att.kind, value |-> att.value,
                 error |-> att.error,
                 attempt |-> [Attempt(att) EXCEPT !.value = value],
                 shared |-> shared,
                 inner |-> IF rejected \/ cut THEN NoAttempt
                           ELSE [Attempt(inn) EXCEPT !.value = inner.value],
                 innerKind |-> IF rejected \/ cut THEN "none" ELSE inn.kind,
                 innerValue |-> IF rejected \/ cut THEN Undefined ELSE inn.value]
     /\ UNCHANGED <<heap, call, iters>>

\* How a run of the engine or of a caller's function may go: the ticks it
\* takes, and for the engine whether it fails.
Costs == 0..MaxCost
Runs == {[cost |-> c, fault |-> FALSE] : c \in Costs} \cup {[cost |-> 0, fault |-> TRUE]}
Overheads == 0..MaxOverhead
Deadlines == UserTimeouts \cup {NoTimeout}
Budgets == UserTimeouts \cup {Infinity}
StepBudgets == (1..MaxMatchTimeout) \cup {Infinity}

CallerStep == \E n \in 0..MaxLen : CallerSetsLastIndex(n)
IsMatchStep ==
  \E s \in Strings, t \in Deadlines, r \in Runs : IsMatch(s, t, r.cost, r.fault)
FirstMatchStep ==
  \E s \in Strings, t \in Deadlines, r \in Runs : FirstMatch(s, t, r.cost, r.fault)
MatchesStep ==
  \E s \in Strings, t \in Budgets, m \in StepBudgets : MatchesCall(s, t, m)
PullStep ==
  \E r \in Runs, o \in Overheads : Pull(1, r.cost, o, r.fault)
\* A run of the engine that never ends by itself (catastrophic backtracking).
HangRun == [cost |-> Infinity, fault |-> FALSE]
PullOrHangStep ==
  \E r \in Runs \cup {HangRun}, o \in Overheads : Pull(1, r.cost, o, r.fault)
PullFinishedStep == PullFinished(1)
\* Two iterations of one returned value, the stopwatch measuring the guarded
\* run alone: the second begins once the first has begun, and the pulls on the
\* two generators interleave.
PullFirstStep == \E r \in Runs : Pull(1, r.cost, 0, r.fault)
PullSecondStep ==
  /\ iters[1].state # "fresh"
  /\ \E r \in Runs : Pull(2, r.cost, 0, r.fault)
\* A matches call on a subject of the greatest length that bounds the whole
\* iteration only.
ReiterateCallStep ==
  \E s \in StringsOfLen(MaxLen), t \in Budgets : MatchesCall(s, t, Infinity)
GuardReturnStep ==
  \E t \in Deadlines, c \in Costs, v \in FnValues : GuardReturning(t, c, v)
GuardThrowStep ==
  \E t \in Deadlines, c \in Costs, e \in FnErrors : GuardThrowing(t, c, e)

\* isMatch and firstMatch.
SingleNext == CallerStep \/ IsMatchStep \/ FirstMatchStep
SpecSingle == Init /\ [][SingleNext]_vars

\* matches and one iteration of what it returns.
MatchesNext == CallerStep \/ MatchesStep \/ PullStep
SpecMatches == Init /\ [][MatchesNext]_vars

\* The matching facade: isMatch and firstMatch calls, then a matches call and
\* the iteration of what it returns.
Next ==
  \/ CallerStep
  \/ ~call.active /\ IsMatchStep
  \/ ~call.active /\ FirstMatchStep
  \/ MatchesStep
  \/ PullStep
Spec == Init /\ [][Next]_vars

\* One matches call and a consumer pulling on one iteration of what it
\* returned, also after the iteration has ended; the engine may never return.
PullingNext == MatchesStep \/ PullOrHangStep \/ PullFinishedStep
SpecPulling == Init /\ [][PullingNext]_vars
\* A generator that has neither returned nor thrown can be pulled, and the pull
\* runs the generator's body: ENABLED <<PullOrHangStep>>_vars.
CanPull == call.active /\ iters[1].state \in {"fresh", "suspended"}
\* The consumer keeps pulling while the iteration has not ended: weak fairness
\* of PullOrHangStep, its enabling condition written as the state predicate
\* CanPull.
KeepsPulling == []<>(~CanPull) \/ []<><<PullOrHangStep>>_vars
\* The same, with a consumer that keeps pulling, before and after the end of
\* the iteration: the caller drives the iteration, strictly single-threaded,
\* and a pull returns before the next one is made.
SpecPullingFair == SpecPulling /\ KeepsPulling /\ WF_vars(PullFinishedStep)

\* One matches call and two iterations of the value it returned.
ReiterateNext == ReiterateCallStep \/ PullFirstStep \/ PullSecondStep
SpecReiterate == Init /\ [][ReiterateNext]_vars

\* isMatch and firstMatch calls that run to their end (no timeout is set, the
\* engine does not fail), on a regex the caller has left at any position.
IsMatchInTimeStep == \E s \in Strings : IsMatch(s, NoTimeout, 0, FALSE)
FirstMatchInTimeStep == \E s \in Strings : FirstMatch(s, NoTimeout, 0, FALSE)
PositionNext == CallerStep \/ IsMatchInTimeStep \/ FirstMatchInTimeStep
SpecPosition == Init /\ [][PositionNext]_vars

\* The wrapped functions a wrapped function calls: they return at once or
\* after the longest run, or fail at once.
InnerFns ==
  {Returning(c, v) : c \in {0, MaxCost}, v \in FnValues} \cup {Throwing(0, EngineError)}
GuardNestedStep ==
  \E t \in Deadlines, u \in Deadlines, g \in InnerFns, sh \in BOOLEAN :
    GuardNested(t, Num(1), u, g, sh)

\* The Deadline Executor with one context used by call after call, and by a
\* call made inside another.
GuardSharedNext == GuardReturnStep \/ GuardThrowStep \/ GuardNestedStep
SpecGuardShared == Init /\ [][GuardSharedNext]_vars

\* The Deadline Executor.
GuardNext == GuardReturnStep \/ GuardThrowStep
SpecGuard == Init /\ [][GuardNext]_vars

(***************************************************************************)
(* What the claims compare the program with.                               *)
(***************************************************************************)
\* The match record a plain scan reports for an engine result.
PlainMatch(result) ==
  [match |-> result.arr[1],
   index |-> result.index,
   groups |-> SubSeq(result.arr, 2, Len(result.arr)),
   namedGroups |-> IF result.groups = Undefined THEN Obj({}) ELSE result.groups,
   input |-> result.input]

\* A plain exhaustive forward scan of the pattern over s from position pos:
\* every match in turn, the scan resuming at the end of each match (one further
\* after an empty match).
RECURSIVE PlainScan(_, _, _, _)
PlainScan(p, sticky, s, pos) ==
  IF pos > Len(s) THEN <<>>
  ELSE LET at == IF sticky
                 THEN (IF MatchAt(p, s, pos) # Null THEN pos ELSE Len(s) + 1)
                 ELSE FindFrom(p, s, pos)
       IN IF at > Len(s) THEN <<>>
          ELSE <<PlainMatch(MatchAt(p, s, at))>>
               \o PlainScan(p, sticky, s,
                            IF EndOf(MatchAt(p, s, at)) = at THEN at + 1
                            ELSE EndOf(MatchAt(p, s, at)))

IsPrefix(a, b) == Len(a) <= Len(b) /\ SubSeq(b, 1, Len(a)) = a
StrictlyIncreasing(ms) == \A j \in 1..(Len(ms) - 1) : ms[j].index < ms[j + 1].index

(***************************************************************************)
(* C1 (as claimed): once the measured step times have used up a finite     *)
(* timeout before the cursor reported exhaustion, the iteration has raised *)
(* no error, and what it yielded is a prefix of what an unbounded          *)
(* iteration of the same call yields.                                      *)
(***************************************************************************)
C1_ExhaustedBudgetEndsQuietly ==
  \A i \in Iters :
    (/\ call.active
     /\ call.budget # Infinity
     /\ call.timeout <= 0
     /\ iters[i].state # "fresh"
     /\ iters[i].ended \notin {"exhausted", "threw"})
    => /\ iters[i].state # "failed"
       /\ IsPrefix(iters[i].yielded,
                   PlainScan(heap[CallerRef].pattern, heap[CallerRef].sticky,
                             call.string, iters[i].start))

(***************************************************************************)
(* C2: no isMatch, firstMatch or matches call, and no pull on the iterator *)
(* matches returned, changes the caller's regex object (flags, lastIndex). *)
(***************************************************************************)
C2_CallerRegexUntouched ==
  [][last'.op \in {"isMatch", "firstMatch", "matches", "next"}
       => heap'[CallerRef] = heap[CallerRef]]_vars

\* isMatch found a match with a global regex that carries a scan position.
C2_Witness ==
  /\ last.op = "isMatch"
  /\ last.value = Bool(TRUE)
  /\ heap[CallerRef].global
  /\ heap[CallerRef].lastIndex > 0

(***************************************************************************)
(* C3 (as claimed): an iteration with both budgets unbounded that ran to   *)
(* exhaustion yielded exactly the matches of a plain exhaustive scan of    *)
(* the subject from its start, in strictly increasing index order,         *)
(* whatever position the caller's regex carried.                           *)
(***************************************************************************)
C3_UnboundedIterationIsPlainScan ==
  \A i \in Iters :
    (/\ call.active
     /\ call.budget = Infinity
     /\ call.matchTimeout = Infinity
     /\ iters[i].ended = "exhausted")
    => /\ iters[i].yielded = PlainScan(heap[CallerRef].pattern, heap[CallerRef].sticky,
                                       call.string, 0)
       /\ StrictlyIncreasing(iters[i].yielded)

(***************************************************************************)
(* C4: a guarded call whose function does not complete within the deadline *)
(* returns no value: it raises an error that isTimeoutError recognises.    *)
(***************************************************************************)
C4_TimeoutAlwaysRaises ==
  (last.op = "guard" /\ last.attempt.outcome = "timeout")
  => /\ last.kind = "throw"
     /\ isTimeoutError(last.error)

\* A guarded call ran past its deadline.
C4_Witness ==
  /\ last.op = "guard"
  /\ last.attempt.outcome = "timeout"
  /\ last.kind = "throw"

(***************************************************************************)
(* C5 (as claimed): an error thrown by the guarded function or the engine  *)
(* itself reaches the caller unchanged through the wrapper, isMatch,       *)
(* firstMatch and the iteration, and isTimeoutError does not take it for a *)
(* timeout.                                                                *)
(***************************************************************************)
C5_OtherErrorsPropagate ==
  (last.op \in {"guard", "isMatch", "firstMatch", "next"} /\ last.attempt.outcome = "threw")
  => /\ last.kind = "throw"
     /\ last.error = last.attempt.error
     /\ ~isTimeoutError(last.error)

(***************************************************************************)
(* C6: a guarded call whose function completes (in time, or with no        *)
(* timeout given) returns exactly the value the function returned,         *)
(* undefined included.                                                     *)
(***************************************************************************)
C6_ReturnsFunctionValue ==
  (last.op = "guard" /\ last.attempt.outcome = "completed")
  => /\ last.kind = "return"
     /\ last.value = last.attempt.value

\* A guarded function returned undefined in time.
C6_Witness ==
  /\ last.op = "guard"
  /\ last.attempt.outcome = "completed"
  /\ last.kind = "return"
  /\ last.value = Undefined

(***************************************************************************)
(* C7: isMatch makes one guarded attempt; it returns the attempt's boolean *)
(* when the attempt completes, false when the attempt times out, and       *)
(* raises, with the attempt's error, exactly when the attempt raises       *)
(* anything else.                                                          *)
(***************************************************************************)
C7_IsMatchOutcome ==
  last.op = "isMatch"
  => /\ last.attempt.outcome \in {"completed", "timeout", "threw", "rejected"}
     /\ last.attempt.outcome = "completed"
          => /\ last.kind = "return"
             /\ last.value = last.attempt.value
             /\ last.value \in {Bool(TRUE), Bool(FALSE)}
     /\ last.attempt.outcome = "timeout"
          => last.kind = "return" /\ last.value = Bool(FALSE)
     /\ last.attempt.outcome \in {"threw", "rejected"}
          => last.kind = "throw" /\ last.error = last.attempt.error

\* isMatch gave false because the attempt timed out.
C7_Witness ==
  /\ last.op = "isMatch"
  /\ last.attempt.outcome = "timeout"
  /\ last.kind = "return"
  /\ last.value = Bool(FALSE)

(***************************************************************************)
(* C8: firstMatch returns undefined exactly when its one attempt found no  *)
(* match or timed out, and never an error in those cases; when the attempt *)
(* found a match it returns the match record built from that result.       *)
(***************************************************************************)
C8_FirstMatchOutcome ==
  last.op = "firstMatch"
  => /\ (last.kind = "return" /\ last.value = Undefined)
          <=> \/ last.attempt.outcome = "completed" /\ last.attempt.value = Null
              \/ last.attempt.outcome = "timeout"
     /\ (last.attempt.outcome = "completed" /\ last.attempt.value # Null)
          => /\ last.kind = "return"
             /\ last.value = PlainMatch(last.attempt.value)

\* firstMatch returned a match whose second capture group took no part.
C8_Witness ==
  /\ last.op = "firstMatch"
  /\ last.kind = "return"
  /\ last.value # Undefined
  /\ Len(last.value.groups) = 2
  /\ last.value.groups[2] = Undefined

(***************************************************************************)
(* C9: matches on a regex without the global flag raises the usage error   *)
(* at the call: no iterable comes to exist, no generator ever runs, no     *)
(* budget is set.                                                          *)
(***************************************************************************)
C9_UsageErrorAtCall ==
  /\ (last.op = "matches" /\ ~heap[CallerRef].global)
       => last.kind = "throw" /\ last.error = UsageError
  /\ ~heap[CallerRef].global
       => call = NoCall /\ \A i \in Iters : iters[i] = FreshIter

\* matches was called with a regex that lacks the global flag.
C9_Witness ==
  /\ last.op = "matches"
  /\ last.kind = "throw"
  /\ ~heap[CallerRef].global

C11_FiniteBudgetTerminates ==
  /\ [](\A i \in Iters :
          (call.active /\ (call.budget # Infinity \/ call.matchTimeout # Infinity))
            => /\ iters[i].state # "blocked"
               /\ (last.op = "next" /\ last.attempt.outcome # "none")
                    => (last.deadline # NoTimeout /\ last.deadline < Infinity))
  /\ (call.active /\ (call.budget # Infinity \/ call.matchTimeout # Infinity))
       ~> (iters[1].state \in {"done", "failed"})

\* Only matchTimeout is finite, and after a yielded match a step ran into it:
\* the iteration ended there.
C11_Witness ==
  /\ call.active
  /\ call.budget = Infinity
  /\ call.matchTimeout # Infinity
  /\ iters[1].ended = "timeout"
  /\ Len(iters[1].yielded) >= 1

\* Neither budget is finite and the engine never returned: the pull blocks.
C11_UnboundedMayBlock ==
  /\ call.active
  /\ call.budget = Infinity
  /\ call.matchTimeout = Infinity
  /\ iters[1].state = "blocked"

(***************************************************************************)
(* C12 (as claimed): in an iteration with a finite timeout no guarded step *)
(* is attempted once the remaining budget has reached zero: the deadline   *)
(* handed to the Deadline Executor is never zero or less.                  *)
(***************************************************************************)
C12_NoStepOnSpentBudget ==
  (last.op = "next" /\ call.budget # Infinity /\ last.attempt.outcome # "none")
    => (last.before > 0 /\ last.deadline > 0)

(***************************************************************************)
(* C13 (as claimed): the remaining budget of a matches iteration is never  *)
(* negative, whatever time the stopwatch measured for each step.           *)
(***************************************************************************)
C13_RemainingNeverNegative == call.timeout >= 0

(***************************************************************************)
(* C14 (as claimed): iterating the value one matches call returned a       *)
(* second time makes no new cursor and yields none of the matches again:   *)
(* no matcher exists for a second iteration, and no match the first        *)
(* iteration yielded is yielded by the second.                             *)
(***************************************************************************)
C14_SecondIterationStartsNothing ==
  /\ heap[MatcherRef(2)] = NoRegex
  /\ \A j \in 1..Len(iters[1].yielded), k \in 1..Len(iters[2].yielded) :
       iters[1].yielded[j] # iters[2].yielded[k]

(***************************************************************************)
(* C15: with one context used by invocation after invocation, also after   *)
(* one that timed out or threw, and by an invocation made inside another,  *)
(* every invocation that returns gives back the value of its own function  *)
(* and leaves that value on its context; an inner invocation on another    *)
(* context changes nothing of the outer one's.                             *)
(***************************************************************************)
C15_OwnValueOnSharedContext ==
  /\ (last.op \in {"guard", "nested"} /\ last.kind = "return")
       => /\ last.value = last.attempt.value
          /\ context.returnValue = last.attempt.value
  /\ (last.op = "nested" /\ last.innerKind = "return")
       => last.innerValue = last.inner.value
  /\ (last.op = "nested" /\ ~last.shared)
       => context.functionToRun = Returning(0, last.attempt.value)

\* An invocation returned its own value although the invocation it made
\* inside, on the same context, had returned another value and left it there.
C15_Witness ==
  /\ last.op = "nested"
  /\ last.shared
  /\ last.kind = "return"
  /\ last.innerKind = "return"
  /\ last.innerValue # last.value
  /\ context.functionToRun # Returning(0, last.attempt.value)

C17_StepDeadlineIsMin ==
  (last.op = "next" /\ last.attempt.outcome # "none")
    => IF last.before = Infinity /\ call.matchTimeout = Infinity
       THEN last.deadline = NoTimeout
       ELSE /\ last.deadline \in {last.before, call.matchTimeout}
            /\ last.deadline <= last.before
            /\ last.deadline <= call.matchTimeout

\* A step of an iteration with both budgets finite ran under matchTimeout, the
\* smaller of the two.
C17_Witness ==
  /\ last.op = "next"
  /\ last.attempt.outcome = "completed"
  /\ last.before # Infinity
  /\ call.matchTimeout # Infinity
  /\ last.deadline = call.matchTimeout
  /\ last.deadline < last.before

\* The least whole number of milliseconds that covers `ticks` ticks.
WholeMsCovering(ticks) ==
  CHOOSE n \in 0..ticks :
    /\ n * TicksPerMs >= ticks
    /\ \A m \in 0..ticks : m * TicksPerMs >= ticks => n <= m

(***************************************************************************)
(* C18: while a matches call is iterated its remaining budget never grows; *)
(* an unbounded remaining budget stays unbounded; and a step that          *)
(* completes with `cost` ticks inside the guarded function and `overhead`  *)
(* ticks around it takes the measured time, rounded up to whole            *)
(* milliseconds, off a finite remaining budget.                            *)
(***************************************************************************)
C18_RemainingNonIncreasing ==
  [][/\ call.active => call'.timeout <= call.timeout
     /\ (call.active /\ call.timeout = Infinity) => call'.timeout = Infinity
     /\ \A r \in Runs, o \in Overheads :
          (/\ call.timeout # Infinity
           /\ last'.op = "next"
           /\ last'.attempt.outcome = "completed"
           /\ Pull(1, r.cost, o, r.fault))
          => call'.timeout = call.timeout - WholeMsCovering(r.cost + o)]_vars

\* The second step of an iteration with a finite budget completed and took
\* more than one millisecond off what the first had left.
C18_Witness ==
  /\ last.op = "next"
  /\ last.attempt.outcome = "completed"
  /\ last.before # Infinity
  /\ last.before < call.budget
  /\ call.timeout < last.before - 1

(***************************************************************************)
(* C19: whatever lastIndex the caller's regex carries, an isMatch call     *)
(* that runs to its end tells whether a plain scan of the subject from     *)
(* position 0 finds a match, and a firstMatch call gives that scan's first *)
(* match (or undefined); the clone they run has the pattern and the flags  *)
(* of the caller's regex and starts at position 0.                         *)
(***************************************************************************)
C19_PositionIndependent ==
  [][/\ \A s \in Strings :
          /\ (last'.op = "isMatch" /\ IsMatch(s, NoTimeout, 0, FALSE))
               => last'.value =
                    Bool(PlainScan(heap[CallerRef].pattern, heap[CallerRef].sticky, s, 0) # <<>>)
          /\ (last'.op = "firstMatch" /\ FirstMatch(s, NoTimeout, 0, FALSE))
               => last'.value =
                    IF PlainScan(heap[CallerRef].pattern, heap[CallerRef].sticky, s, 0) = <<>>
                    THEN Undefined
                    ELSE Head(PlainScan(heap[CallerRef].pattern, heap[CallerRef].sticky, s, 0))
     /\ LET c == structuredClone(heap, CallerRef)
        IN c.heap[c.ref] = [heap[CallerRef] EXCEPT !.lastIndex = 0]]_vars

\* firstMatch found the match at the start of the subject although the
\* caller's global regex stood past it.
C19_Witness ==
  /\ last.op = "firstMatch"
  /\ last.kind = "return"
  /\ last.value # Undefined
  /\ last.value.index = 0
  /\ heap[CallerRef].global
  /\ heap[CallerRef].lastIndex > 0

(***************************************************************************)
(* C20: the generators obtained from one returned value share the          *)
(* remaining budget of the matches call.  However their pulls interleave,  *)
(* each guarded step starts from the budget the steps before it left,      *)
(* whichever generator made them, a step that completes takes its rounded  *)
(* up time off that one budget, and a step that raises (timeout, engine    *)
(* failure, rejected deadline) leaves it as it was.                        *)
(***************************************************************************)
C20_BudgetSharedByIterators ==
  [][\A r \in Runs :
       (/\ last'.op = "next"
        /\ last'.it \in Iters
        /\ Pull(last'.it, r.cost, 0, r.fault))
       => /\ last'.before = call.timeout
          /\ last'.attempt.outcome # "none"
               => last'.deadline = StepTimeout(call.timeout, call.matchTimeout)
          /\ call'.timeout =
               IF last'.attempt.outcome = "completed" /\ call.timeout # Infinity
               THEN call.timeout - WholeMsCovering(r.cost)
               ELSE call.timeout]_vars

\* While the first generator is suspended after a match, the second one's
\* first step started from the budget the first had left, and took its own
\* time off it.
C20_Witness ==
  /\ last.op = "next"
  /\ last.it = 2
  /\ last.kind = "yield"
  /\ Len(iters[2].yielded) = 1
  /\ iters[1].state = "suspended"
  /\ last.before # Infinity
  /\ last.before < call.budget
  /\ call.timeout < last.before

\* A step of the second generator raised, and the budget stayed what the
\* first generator's steps had left.
C20_RaisingStepReached ==
  /\ last.op = "next"
  /\ last.it = 2
  /\ last.attempt.outcome \in {"timeout", "threw", "rejected"}
  /\ last.before < call.budget
  /\ call.timeout = last.before

====
